---- MODULE Spec2Model ----
(***************************************************************************)
(* A model of gpu_undervolt.py: start-up (get_gpus, int_list, the checks   *)
(* of __main__), the one-shot enable/disable modes, the daemon             *)
(* (daemon_main, run_power_draw, signal_handler) and the actuator          *)
(* (undervolt_gpu, run_nvidia_settings) with the device state its          *)
(* commands act on.                                                        *)
(*                                                                         *)
(* Text (a telemetry line, the -i argument) is a sequence of one-character *)
(* strings, so that split, strip, slicing, int() and float() are computed  *)
(* as Python computes them.  Power draw is kept in hundredths of a watt,   *)
(* the resolution nvidia-smi prints.                                       *)
(***************************************************************************)
EXTENDS Integers, Sequences, FiniteSets, TLC

\* ------------------------------------------------------------------ bounds
\* the largest number of GPUs nvidia-smi enumerates
MaxGpus == 2
\* the largest number of comma separated entries of the -i argument
MaxArgs == 2

\* ------------------------------------------------------------ text helpers
Digits == <<"0", "1", "2", "3", "4", "5", "6", "7", "8", "9">>

IsDigit(c) == \E d \in 1..10 : Digits[d] = c

DigitVal(c) == (CHOOSE d \in 1..10 : Digits[d] = c) - 1

IsSpace(c) == c \in {" ", "\t", "\n", "\r"}

\* code point order on the characters the model uses (Python compares str by
\* code point)
CharOrder == <<"\t", "\n", "\r", " ", "+", ",", "-", ".", "/",
               "0", "1", "2", "3", "4", "5", "6", "7", "8", "9", "?",
               "A", "N", "P", "W", "[", "]", "x">>

CharOrd(c) == CHOOSE k \in 1..Len(CharOrder) : CharOrder[k] = c

RECURSIVE StrLess(_, _)
\* a < b for two Python str
StrLess(a, b) ==
    IF a = <<>> THEN b # <<>>
    ELSE IF b = <<>> THEN FALSE
    ELSE IF Head(a) = Head(b) THEN StrLess(Tail(a), Tail(b))
    ELSE CharOrd(Head(a)) < CharOrd(Head(b))

RECURSIVE LStrip(_)
LStrip(s) == IF s # <<>> /\ IsSpace(Head(s)) THEN LStrip(Tail(s)) ELSE s

RECURSIVE RStrip(_)
\* str.rstrip()
RStrip(s) ==
    IF s # <<>> /\ IsSpace(s[Len(s)]) THEN RStrip(SubSeq(s, 1, Len(s) - 1)) ELSE s

\* str.strip()
Strip(s) == LStrip(RStrip(s))

RECURSIVE SplitFrom(_, _, _)
SplitFrom(s, sep, cur) ==
    IF s = <<>> THEN <<cur>>
    ELSE IF Head(s) = sep THEN <<cur>> \o SplitFrom(Tail(s), sep, <<>>)
    ELSE SplitFrom(Tail(s), sep, Append(cur, Head(s)))

\* str.split(sep) for a one-character separator: always at least one field
Split(s, sep) == SplitFrom(s, sep, <<>>)

RECURSIVE DigitsVal(_, _)
DigitsVal(s, acc) ==
    IF s = <<>> THEN acc ELSE DigitsVal(Tail(s), 10 * acc + DigitVal(Head(s)))

AllDigits(s) == \A k \in 1..Len(s) : IsDigit(s[k])

\* int(s): surrounding whitespace, an optional sign, one or more digits
\* (underscores and non-ASCII digits are not modelled).  ok = FALSE is
\* ValueError.
ParseInt(s) ==
    LET t == Strip(s)
        signed == t # <<>> /\ Head(t) \in {"+", "-"}
        body == IF signed THEN Tail(t) ELSE t
    IN  IF body # <<>> /\ AllDigits(body)
        THEN [ok |-> TRUE,
              val |-> IF signed /\ Head(t) = "-" THEN 0 - DigitsVal(body, 0)
                      ELSE DigitsVal(body, 0)]
        ELSE [ok |-> FALSE, val |-> 0]

\* the position of the first "." of s, or 0
PointAt(s) ==
    IF \E k \in 1..Len(s) : s[k] = "."
    THEN CHOOSE k \in 1..Len(s) : s[k] = "." /\ \A j \in 1..(k - 1) : s[j] # "."
    ELSE 0

\* float(s) in hundredths: surrounding whitespace, digits with an optional
\* decimal point and at least one digit (sign, exponent, inf and nan are not
\* modelled; digits past the second decimal are dropped).  ok = FALSE is
\* ValueError.
ParseFloat(s) ==
    LET t == Strip(s)
        p == PointAt(t)
        ip == IF p = 0 THEN t ELSE SubSeq(t, 1, p - 1)
        fp == IF p = 0 THEN <<>> ELSE SubSeq(t, p + 1, Len(t))
        f2 == SubSeq(fp \o <<"0", "0">>, 1, 2)
    IN  IF AllDigits(ip) /\ AllDigits(fp) /\ Len(ip) + Len(fp) > 0
        THEN [ok |-> TRUE, val |-> 100 * DigitsVal(ip, 0) + DigitsVal(f2, 0)]
        ELSE [ok |-> FALSE, val |-> 0]

RECURSIVE NatToStr(_)
\* str(n) for n >= 0
NatToStr(n) ==
    IF n < 10 THEN <<Digits[n + 1]>> ELSE NatToStr(n \div 10) \o <<Digits[(n % 10) + 1]>>

RECURSIVE Join(_, _)
\* sep.join(parts)
Join(parts, sep) ==
    IF parts = <<>> THEN <<>>
    ELSE IF Len(parts) = 1 THEN parts[1]
    ELSE parts[1] \o <<sep>> \o Join(Tail(parts), sep)

\* the sequences over S of length lo..hi
SeqsOf(S, lo, hi) == UNION {[1..n -> S] : n \in lo..hi}

RECURSIVE SortedStrs(_)
\* sorted(S) for a set of str
SortedStrs(S) ==
    IF S = {} THEN <<>>
    ELSE LET m == CHOOSE x \in S : \A y \in S : x = y \/ StrLess(x, y)
         IN  <<m>> \o SortedStrs(S \ {m})

Range(f) == {f[k] : k \in DOMAIN f}

\* ---------------------------------------------------------------- registry
RTX3090 == "NVIDIA GeForce RTX 3090"

\* a second card, added to the table the way the header (lines 39-48) tells
\* the user to; it makes systems with different cards possible
RTX3080 == "NVIDIA GeForce RTX 3080"

\* a card nvidia-smi may report and the table does not know
GTX1080 == "NVIDIA GeForce GTX 1080"

gpu_info ==
    [name \in {RTX3090, RTX3080} |->
        IF name = RTX3090
        THEN [core |-> 1395, boost |-> 1695, offset |-> 200, threshold |-> 120]
        ELSE [core |-> 1440, boost |-> 1710, offset |-> 150, threshold |-> 110]]

\* ----------------------------------------------------------------- inputs
\* what nvidia-smi --query-gpu=gpu_name prints: one name per line
NameLists == SeqsOf({RTX3090, RTX3080, GTX1080}, 0, MaxGpus)

ArgTokens == {<<"0">>, <<"1">>, <<"0", "0">>, <<"x">>}

\* the -i argument: absent, or comma separated entries
GpuListArgs ==
    {[given |-> FALSE, text |-> <<>>]} \cup
    {[given |-> TRUE, text |-> Join(ts, ",")] : ts \in SeqsOf(ArgTokens, 1, MaxArgs)}

Modes == {"init", "enable", "disable", "daemon"}

HostOk ==
    [euid_root |-> TRUE, display |-> TRUE, xauthority |-> TRUE,
     xwrapper_ok |-> TRUE, xorg_ok |-> TRUE]

\* the host as the checks of __main__ find it: in order, or with one fault
Hosts ==
    {HostOk} \cup {[HostOk EXCEPT ![f] = FALSE] : f \in DOMAIN HostOk}

\* ------------------------------------------------------------------ state
VARIABLES
    pc,             \* where the process is: start, oneshot, tick, sleeping,
                    \* shutdown, exited
    env,            \* argv and the host, fixed at process start
    gpus,           \* the list get_gpus built, with the reader's fields
    affected_gpus,  \* the monitored GPUs: positions in gpus, in list order
    pos,            \* the position of the running for loop in affected_gpus
    calls,          \* the undervolt_gpu calls of the running loop
    lastCall,       \* per GPU index, the latest undervolt_gpu call
    sig,            \* SIGINT/SIGTERM: none, pending, handled
    sigAt,          \* where the process was when the signal arrived
    reader,         \* the run_power_draw task: idle, running, ended, crashed
    exitStatus,     \* the exit status, -1 while running
    dev,            \* per GPU index, what the tools' commands have set
    callLog,        \* the two latest actuator calls with commands and outcome
    prevCalls,      \* the calls of the tick before, where they are kept
    torn            \* the positions in gpus whose power_draw and pstate were
                    \* not stored from one and the same line

vars == <<pc, env, gpus, affected_gpus, pos, calls, lastCall, sig, sigAt,
          reader, exitStatus, dev, callLog, prevCalls, torn>>

\* ---------------------------------------------------------------- get_gpus
\* enumerate() numbers the lines from 0; i is the 1-based position
get_gpus_index(i) == i - 1

get_gpus_Mut(names) ==
    LET known == SelectSeq(names, LAMBDA name : name \in DOMAIN gpu_info)
    IN  [ok |-> TRUE,
         gpus |-> [i \in 1..Len(known) |->
                     [info |-> gpu_info[known[i]], index |-> get_gpus_index(i),
                      has_power_draw |-> FALSE, power_draw |-> 0,
                      has_pstate |-> FALSE, pstate |-> 0]]]

\* ok = FALSE is the TypeError of an unknown name
get_gpus(names) ==
    IF \E i \in 1..Len(names) : names[i] \notin DOMAIN gpu_info
    THEN [ok |-> FALSE, gpus |-> <<>>]
    ELSE [ok |-> TRUE,
          gpus |-> [i \in 1..Len(names) |->
                      [info |-> gpu_info[names[i]], index |-> get_gpus_index(i),
                       has_power_draw |-> FALSE, power_draw |-> 0,
                       has_pstate |-> FALSE, pstate |-> 0]]]

\* ---------------------------------------------------------------- int_list
\* list(map(int, sorted(list(set(arg.split(','))))));  ok = FALSE is the
\* ValueError of int()
int_list(arg) ==
    LET strs == SortedStrs(Range(Split(arg, ",")))
    IN  IF \E k \in 1..Len(strs) : ~ParseInt(strs[k]).ok
        THEN [ok |-> FALSE, list |-> <<>>]
        ELSE [ok |-> TRUE, list |-> [k \in 1..Len(strs) |-> ParseInt(strs[k]).val]]

\* list[x] in Python: the 1-based position, or 0 for IndexError
PyIndex(n, x) ==
    IF x >= 0 /\ x < n THEN x + 1
    ELSE IF x < 0 /\ x >= 0 - n THEN n + x + 1
    ELSE 0

\* ---------------------------------------------------------------- __main__
Exit(status) ==
    /\ pc' = "exited"
    /\ exitStatus' = status

\* affected_gpus = gpus if args.gpu_list is None else [gpus[x] for x in list]
select_affected(n, parsed) ==
    IF ~env.gpu_list.given THEN [k \in 1..n |-> k]
    ELSE [k \in 1..Len(parsed.list) |-> PyIndex(n, parsed.list[k])]

\* the script from parse_args to the start of a mode
Startup ==
    /\ pc = "start"
    /\ LET parsed == IF env.gpu_list.given THEN int_list(env.gpu_list.text)
                     ELSE [ok |-> TRUE, list |-> <<>>]
           found == get_gpus(env.names)
           aff == select_affected(Len(found.gpus), parsed)
           run(p, r) ==
               /\ pc' = p
               /\ exitStatus' = -1
               /\ gpus' = found.gpus
               /\ affected_gpus' = aff
               /\ lastCall' = [i \in 0..(Len(found.gpus) - 1) |-> "none"]
               /\ pos' = 1
               /\ reader' = r
       IN  IF ~parsed.ok
           THEN Exit(2) /\ UNCHANGED <<gpus, affected_gpus, lastCall, pos, reader>>
           ELSE IF \/ ~env.host.euid_root
                   \/ ~found.ok
                   \/ Len(found.gpus) = 0
                   \/ ~env.host.display
                   \/ ~env.host.xauthority
           THEN Exit(1) /\ UNCHANGED <<gpus, affected_gpus, lastCall, pos, reader>>
           ELSE IF env.mode = "init"
           THEN Exit(0) /\ UNCHANGED <<gpus, affected_gpus, lastCall, pos, reader>>
           ELSE IF \/ ~env.host.xwrapper_ok
                   \/ ~env.host.xorg_ok
                   \/ \E k \in 1..Len(aff) : aff[k] = 0
           THEN Exit(1) /\ UNCHANGED <<gpus, affected_gpus, lastCall, pos, reader>>
           ELSE IF env.mode \in {"enable", "disable"}
           THEN run("oneshot", "idle")
           ELSE run("tick", "running")
    /\ UNCHANGED <<env, calls, sig, sigAt, dev, callLog,
                   prevCalls, torn>>

\* ---------------------------------------------------------------- actuator
\* one external command: the tool, the GPU index it is addressed to (if
\* any), the option and its values
SmiCommand(index, op, x, y) ==
    [tool |-> "nvidia-smi", addressed |-> TRUE, index |-> index,
     op |-> op, x |-> x, y |-> y]

\* nvidia-settings -a GPUPowerMizerMode=<mode>
\*                 -a GPUGraphicsClockOffsetAllPerformanceLevels=<offset>:
\* the attributes carry no [gpu:N] target
run_nvidia_settings(mode, offset) ==
    [tool |-> "nvidia-settings", addressed |-> FALSE, index |-> 0,
     op |-> "-a", x |-> mode, y |-> offset]

undervolt_gpu_Mut(gpu, disable) ==
    IF disable
    THEN << SmiCommand(gpu.index, "-pm", 0, 0),
            SmiCommand(gpu.index, "-rgc", 0, 0),
            run_nvidia_settings(0, 0) >>
    ELSE << SmiCommand(gpu.index, "-pm", 1, 0),
            SmiCommand(gpu.index, "-lgc", gpu.info.core, gpu.info.boost),
            run_nvidia_settings(1, gpu.info.offset) >>

\* the commands of undervolt_gpu(gpu, disable), in the order it runs them
undervolt_gpu(gpu, disable) ==
    IF disable
    THEN << SmiCommand(gpu.index, "-pm", 0, 0),
            SmiCommand(gpu.index, "-rgc", 0, 0),
            run_nvidia_settings(0, 0) >>
    ELSE << SmiCommand(gpu.index, "-pm", 1, 0),
            SmiCommand(gpu.index, "-lgc", gpu.info.core - gpu.info.offset,
                       gpu.info.boost - gpu.info.offset),
            run_nvidia_settings(1, gpu.info.offset) >>

\* a GPU as the driver leaves it when nothing was set
StockDevice ==
    [pm |-> 0, locked |-> FALSE, lo |-> 0, hi |-> 0, mizer |-> 0, offset |-> 0]

\* what a command that succeeds sets: nvidia-smi -i N acts on GPU N, an
\* nvidia-settings assignment without a target acts on every GPU of the
\* display
ExecCommand(d, c) ==
    IF c.tool = "nvidia-smi"
    THEN IF c.index \notin DOMAIN d THEN d
         ELSE IF c.op = "-pm" THEN [d EXCEPT ![c.index].pm = c.x]
         ELSE IF c.op = "-rgc"
         THEN [d EXCEPT ![c.index].locked = FALSE, ![c.index].lo = 0, ![c.index].hi = 0]
         ELSE [d EXCEPT ![c.index].locked = TRUE, ![c.index].lo = c.x, ![c.index].hi = c.y]
    ELSE [i \in DOMAIN d |->
            IF c.addressed /\ c.index # i THEN d[i]
            ELSE [d[i] EXCEPT !.mizer = c.x, !.offset = c.y]]

RECURSIVE RunCommands(_, _, _, _)
\* subprocess.run of each command in turn, its result ignored: a command
\* whose number is in fails exits non-zero and sets nothing
RunCommands(d, cmds, fails, k) ==
    IF k > Len(cmds) THEN d
    ELSE RunCommands(IF k \in fails THEN d ELSE ExecCommand(d, cmds[k]),
                     cmds, fails, k + 1)

subprocess_run_raises_Mut(k, fails) == k \in fails

\* does subprocess.run raise for the k-th command of a call: it is called
\* without check, so a non-zero exit status is returned and never raised
subprocess_run_raises(k, fails) == FALSE

\* the commands of a call that are run: all of them, unless one raises
IssuedCommands(cmds, fails) ==
    LET raising == {k \in 1..Len(cmds) : subprocess_run_raises(k, fails)}
    IN  IF raising = {} THEN cmds
        ELSE SubSeq(cmds, 1, CHOOSE k \in raising : \A j \in raising : k <= j)

\* the call returns to its caller unless a command raised
CallReturns(cmds, fails) ==
    \A k \in 1..Len(cmds) : ~subprocess_run_raises(k, fails)

\* the latest two entries of a log
LastTwo(log) == IF Len(log) <= 2 THEN log ELSE SubSeq(log, Len(log) - 1, Len(log))

ActuatorCall_Mut(p, disable, fails) ==
    LET all == undervolt_gpu(gpus[p], disable)
        cmds == IssuedCommands(all, fails)
        after == RunCommands(dev, cmds, fails, 1)
    IN  /\ pc = "actuator"
        /\ dev' = after
        /\ callLog' = LastTwo(Append(callLog,
                [gpu |-> gpus[p].index, disable |-> disable, cmds |-> cmds,
                 fails |-> fails, after |-> after]))
        /\ gpus' = IF disable THEN gpus
                   ELSE [gpus EXCEPT ![p].info.core = @ - gpus[p].info.offset,
                                     ![p].info.boost = @ - gpus[p].info.offset]
        /\ IF CallReturns(all, fails) THEN UNCHANGED <<pc, exitStatus>>
           ELSE Exit(1)
        /\ UNCHANGED <<env, affected_gpus, pos, calls, lastCall, sig, sigAt,
                       reader, prevCalls, torn>>

\* one call undervolt_gpu(gpus[p], disable) against the device: the
\* commands that are run, what they leave on the device, and the call
\* returning to its caller or the exception ending the script
ActuatorCall(p, disable, fails) ==
    LET all == undervolt_gpu(gpus[p], disable)
        cmds == IssuedCommands(all, fails)
        after == RunCommands(dev, cmds, fails, 1)
    IN  /\ pc = "actuator"
        /\ dev' = after
        /\ callLog' = LastTwo(Append(callLog,
                [gpu |-> gpus[p].index, disable |-> disable, cmds |-> cmds,
                 fails |-> fails, after |-> after]))
        /\ IF CallReturns(all, fails) THEN UNCHANGED <<pc, exitStatus>>
           ELSE Exit(1)
        /\ UNCHANGED <<env, gpus, affected_gpus, pos, calls, lastCall, sig, sigAt,
                       reader, prevCalls, torn>>

\* a call of undervolt_gpu made by a loop of the script at position k
Issue(k, gpu, disable) ==
    /\ calls' = Append(calls, [pos |-> k, gpu |-> gpu.index, disable |-> disable])
    /\ lastCall' = [lastCall EXCEPT ![gpu.index] =
                        IF disable THEN "disable" ELSE "enable"]

\* ------------------------------------------------- enable and disable modes
\* for gpu in affected_gpus: undervolt_gpu(gpu, do_disable)
OneShotStep ==
    /\ pc = "oneshot"
    /\ pos <= Len(affected_gpus)
    /\ Issue(pos, gpus[affected_gpus[pos]], env.mode = "disable")
    /\ pos' = pos + 1
    /\ UNCHANGED <<pc, env, gpus, affected_gpus, sig, sigAt, reader, exitStatus, dev,
                   callLog,
                   prevCalls, torn>>

OneShotExit ==
    /\ pc = "oneshot"
    /\ pos > Len(affected_gpus)
    /\ Exit(0)
    /\ UNCHANGED <<env, gpus, affected_gpus, pos, calls, lastCall, sig, sigAt, reader,
                   dev, callLog,
                   prevCalls, torn>>

\* --------------------------------------------------------- telemetry lines
\* power draw values around both thresholds, in hundredths of a watt
PowerDraws == {11000, 12000, 13000}

PStates == {2, 3}

\* 13000 prints as 130.00
FormatWatts(c) ==
    NatToStr(c \div 100) \o <<".">> \o NatToStr((c % 100) \div 10) \o NatToStr(c % 10)

\* the line nvidia-smi --query-gpu=index,power.draw,pstate --format=csv,noheader
\* prints, as readline() returns it: "0, 130.00 W, P0\n"
FormatLine(i, pw, ps) ==
    NatToStr(i) \o <<",", " ">> \o FormatWatts(pw) \o <<" ", "W", ",", " ", "P">>
        \o NatToStr(ps) \o <<"\n">>

\* every such line of the model, formatted once
TelemetryLine ==
    [i \in 0..(MaxGpus - 1), pw \in PowerDraws, ps \in PStates |->
        FormatLine(i, pw, ps)]

\* the lines for the GPUs 0..n-1
GoodLines(n) ==
    {TelemetryLine[i, pw, ps] : i \in 0..(n - 1), pw \in PowerDraws, ps \in PStates}

\* a line whose power draw is not a number: "0, [N/A], P0\n"
BadPowerLine(i) ==
    NatToStr(i) \o <<",", " ", "[", "N", "/", "A", "]", ",", " ", "P", "0", "\n">>

\* a line whose pstate is not a number: "0, 130.00 W, N/A\n"
BadPStateLine(i, pw) ==
    NatToStr(i) \o <<",", " ">> \o FormatWatts(pw)
        \o <<" ", "W", ",", " ", "N", "/", "A", "\n">>

\* lines that fail the parsing contract: no index, an index past the list,
\* a missing field, an empty line, no power draw, no pstate
BadLines ==
    {<<"x", ",", " ", "1", "3", "0", ".", "0", "0", " ", "W", ",", " ", "P", "0", "\n">>,
     FormatLine(MaxGpus, 13000, 0),
     <<"0", ",", " ", "1", "3", "0", ".", "0", "0", " ", "W", "\n">>,
     <<"\n">>}
    \cup {BadPowerLine(i) : i \in 0..(MaxGpus - 1)}
    \cup {BadPStateLine(i, pw) : i \in 0..(MaxGpus - 1), pw \in PowerDraws}

\* ----------------------------------------------------------- run_power_draw
parse_index_Mut(n, x) == PyIndex(n, x + 1)

\* gpu = gpus[index]
parse_index(n, x) == PyIndex(n, x)

\* the body of the while loop for one line that is not b'': which statement
\* raises, if any, and the values parsed before it
parse_line(line) ==
    LET fields == Split(RStrip(line), ",")
        index == ParseInt(fields[1])
        pd == Strip(fields[2])
        power_draw == ParseFloat(SubSeq(pd, 1, Len(pd) - 2))
        ps == Strip(fields[3])
        pstate == ParseInt(SubSeq(ps, 2, Len(ps)))
        none == [raised |-> "split", index |-> 0, power_draw |-> 0, pstate |-> 0]
    IN  IF Len(fields) # 3 THEN none
        ELSE IF ~index.ok THEN [none EXCEPT !.raised = "int(index)"]
        ELSE IF ~power_draw.ok
        THEN [none EXCEPT !.raised = "float(power_draw)", !.index = index.val]
        ELSE IF ~pstate.ok
        THEN [none EXCEPT !.raised = "int(pstate)", !.index = index.val,
                          !.power_draw = power_draw.val]
        ELSE [raised |-> "no", index |-> index.val,
              power_draw |-> power_draw.val, pstate |-> pstate.val]

\* every line of the model, parsed once
Parsed == [line \in GoodLines(MaxGpus) \cup BadLines |-> parse_line(line)]

store_line_Mut(gs, r) ==
    LET p == parse_index(Len(gs), r.index)
    IN  IF r.raised \in {"split", "int(index)", "int(pstate)"} \/ p = 0 THEN gs
        ELSE IF r.raised = "float(power_draw)"
        THEN [gs EXCEPT ![p].has_pstate = TRUE, ![p].pstate = r.pstate]
        ELSE [gs EXCEPT ![p].has_power_draw = TRUE, ![p].power_draw = r.power_draw,
                        ![p].has_pstate = TRUE, ![p].pstate = r.pstate]

\* gpus after the statements of the loop body that ran for a line
store_line(gs, r) ==
    LET p == parse_index(Len(gs), r.index)
    IN  IF r.raised \in {"split", "int(index)", "float(power_draw)"} \/ p = 0 THEN gs
        ELSE IF r.raised = "int(pstate)"
        THEN [gs EXCEPT ![p].has_power_draw = TRUE, ![p].power_draw = r.power_draw]
        ELSE [gs EXCEPT ![p].has_power_draw = TRUE, ![p].power_draw = r.power_draw,
                        ![p].has_pstate = TRUE, ![p].pstate = r.pstate]

\* does the loop body raise for this line
line_raises(gs, r) == r.raised # "no" \/ parse_index(Len(gs), r.index) = 0

\* the positions whose two fields stem from different lines, after the
\* statements of the loop body that ran for a line: the two assignments of
\* one pass store one line's values, an exception between them leaves the
\* first one's
torn_after(gs, r, t) ==
    LET p == parse_index(Len(gs), r.index)
    IN  IF r.raised \in {"split", "int(index)", "float(power_draw)"} \/ p = 0 THEN t
        ELSE IF r.raised = "int(pstate)" THEN t \cup {p}
        ELSE t \ {p}

ReadLine_Mut(line) ==
    /\ pc = "sleeping"
    /\ reader \in {"running", "ended"}
    /\ gpus' = store_line(gpus, Parsed[line])
    /\ torn' = torn_after(gpus, Parsed[line], torn)
    /\ reader' = IF line_raises(gpus, Parsed[line]) THEN "crashed" ELSE reader
    /\ UNCHANGED <<pc, env, affected_gpus, pos, calls, lastCall, sig, sigAt,
                   exitStatus, dev, callLog, prevCalls>>

\* the reader task gets a line while the daemon task sleeps: the line is
\* stored and the task awaits the next one, or an exception ends the task
ReadLine(line) ==
    /\ pc = "sleeping"
    /\ reader = "running"
    /\ gpus' = store_line(gpus, Parsed[line])
    /\ torn' = torn_after(gpus, Parsed[line], torn)
    /\ reader' = IF line_raises(gpus, Parsed[line]) THEN "crashed" ELSE "running"
    /\ UNCHANGED <<pc, env, affected_gpus, pos, calls, lastCall, sig, sigAt,
                   exitStatus, dev, callLog, prevCalls>>

\* readline() returns b'': break, await proc.wait()
ReadEOF ==
    /\ pc = "sleeping"
    /\ reader = "running"
    /\ reader' = "ended"
    /\ UNCHANGED <<pc, env, gpus, affected_gpus, pos, calls, lastCall, sig, sigAt,
                   exitStatus, dev, callLog,
                   prevCalls, torn>>

\* -------------------------------------------------------------- daemon_main
tick_skip_Mut(gpu) == gpu.has_pstate /\ gpu.pstate > 2

\* 'pstate' not in gpu or gpu['pstate'] > 2
tick_skip(gpu) == ~gpu.has_pstate \/ gpu.pstate > 2

tick_disable_Mut(gpu) == gpu.power_draw < 100 * gpu.info.threshold

\* gpu['power_draw'] <= gpu['info']['threshold'], the disable argument
tick_disable(gpu) == gpu.power_draw <= 100 * gpu.info.threshold

TickStep_Mut ==
    /\ pc = "tick"
    /\ pos <= Len(affected_gpus)
    /\ LET gpu == gpus[affected_gpus[pos]]
           was == lastCall[gpu.index]
       IN  IF tick_skip(gpu) THEN UNCHANGED <<calls, lastCall>>
           ELSE IF was = (IF tick_disable(gpu) THEN "disable" ELSE "enable")
           THEN UNCHANGED <<calls, lastCall>>
           ELSE Issue(pos, gpu, tick_disable(gpu))
    /\ pos' = pos + 1
    /\ UNCHANGED <<pc, env, gpus, affected_gpus, sig, sigAt, reader, exitStatus, dev,
                   callLog, prevCalls, torn>>

\* the body of the for loop of a tick for the GPU at pos
TickStep ==
    /\ pc = "tick"
    /\ pos <= Len(affected_gpus)
    /\ LET gpu == gpus[affected_gpus[pos]]
       IN  IF tick_skip(gpu) THEN UNCHANGED <<calls, lastCall>>
           ELSE Issue(pos, gpu, tick_disable(gpu))
    /\ pos' = pos + 1
    /\ UNCHANGED <<pc, env, gpus, affected_gpus, sig, sigAt, reader, exitStatus, dev,
                   callLog,
                   prevCalls, torn>>

\* await asyncio.sleep(daemon_action_interval_s): the other callbacks run
TickSleep ==
    /\ pc = "tick"
    /\ pos > Len(affected_gpus)
    /\ pc' = "sleeping"
    /\ UNCHANGED <<env, gpus, affected_gpus, pos, calls, lastCall, sig, sigAt, reader,
                   exitStatus, dev, callLog,
                   prevCalls, torn>>

TickStart_Mut ==
    /\ pc = "sleeping"
    /\ reader # "crashed"
    /\ pc' = "tick"
    /\ pos' = 1
    /\ calls' = <<>>
    /\ prevCalls' = IF prevCalls.kept THEN [prevCalls EXCEPT !.calls = calls]
                    ELSE prevCalls
    /\ UNCHANGED <<env, gpus, affected_gpus, lastCall, sig, sigAt, reader, exitStatus,
                   dev, callLog, torn>>

\* the sleep is over: the next pass of while True
TickStart ==
    /\ pc = "sleeping"
    /\ pc' = "tick"
    /\ pos' = 1
    /\ calls' = <<>>
    /\ prevCalls' = IF prevCalls.kept THEN [prevCalls EXCEPT !.calls = calls]
                    ELSE prevCalls
    /\ UNCHANGED <<env, gpus, affected_gpus, lastCall, sig, sigAt, reader, exitStatus,
                   dev, callLog, torn>>

\* ----------------------------------------------------------- signal_handler
\* SIGINT or SIGTERM is delivered once the handlers are registered; the
\* loop's handler is a callback, it runs when the loop next polls
SignalArrive ==
    /\ pc \in {"tick", "sleeping"}
    /\ sig = "none"
    /\ sig' = "pending"
    /\ sigAt' = pc
    /\ UNCHANGED <<pc, env, gpus, affected_gpus, pos, calls, lastCall, reader,
                   exitStatus, dev, callLog,
                   prevCalls, torn>>

\* the loop runs signal_handler: event_loop.stop()
SignalHandlerStart ==
    /\ pc = "sleeping"
    /\ sig = "pending"
    /\ sig' = "handled"
    /\ UNCHANGED sigAt
    /\ pc' = "shutdown"
    /\ pos' = 1
    /\ calls' = <<>>
    /\ UNCHANGED <<env, gpus, affected_gpus, lastCall, reader, exitStatus, dev,
                   callLog,
                   prevCalls, torn>>

signal_handler_disable_Mut == FALSE

\* the second argument of undervolt_gpu(gpu, True)
signal_handler_disable == TRUE

SignalHandlerStep_Mut ==
    /\ pc = "shutdown"
    /\ pos <= Len(affected_gpus)
    /\ Issue(pos, gpus[pos], signal_handler_disable)
    /\ pos' = pos + 1
    /\ UNCHANGED <<pc, env, gpus, affected_gpus, sig, sigAt, reader, exitStatus, dev,
                   callLog, prevCalls, torn>>

\* for gpu in affected_gpus: undervolt_gpu(gpu, True)
SignalHandlerStep ==
    /\ pc = "shutdown"
    /\ pos <= Len(affected_gpus)
    /\ Issue(pos, gpus[affected_gpus[pos]], signal_handler_disable)
    /\ pos' = pos + 1
    /\ UNCHANGED <<pc, env, gpus, affected_gpus, sig, sigAt, reader, exitStatus, dev,
                   callLog,
                   prevCalls, torn>>

\* print(...); sys.exit(0)
SignalHandlerExit ==
    /\ pc = "shutdown"
    /\ pos > Len(affected_gpus)
    /\ Exit(0)
    /\ UNCHANGED <<env, gpus, affected_gpus, pos, calls, lastCall, sig, sigAt, reader,
                   dev, callLog,
                   prevCalls, torn>>

\* ----------------------------------------------------------- specifications
\* the state when the script is started; keep says whether the calls of the
\* tick before are kept for the properties that compare two ticks
Begin(keep) ==
    /\ pc = "start"
    /\ env \in [mode : Modes, gpu_list : GpuListArgs, names : NameLists, host : Hosts]
    /\ gpus = <<>>
    /\ affected_gpus = <<>>
    /\ pos = 1
    /\ calls = <<>>
    /\ lastCall = <<>>
    /\ sig = "none"
    /\ sigAt = "none"
    /\ reader = "idle"
    /\ exitStatus = -1
    /\ dev = <<>>
    /\ callLog = <<>>
    /\ prevCalls = [kept |-> keep, calls |-> <<>>]
    /\ torn = {}

Init == Begin(FALSE)

Next ==
    \/ Startup
    \/ OneShotStep
    \/ OneShotExit
    \/ \E line \in GoodLines(Len(gpus)) \cup BadLines : ReadLine(line)
    \/ ReadEOF
    \/ TickStep
    \/ TickSleep
    \/ TickStart
    \/ SignalArrive
    \/ SignalHandlerStart
    \/ SignalHandlerStep
    \/ SignalHandlerExit

Spec == Init /\ [][Next]_vars

\* the actuator by itself: any GPUs of the table, any sequence of calls, any
\* of the three commands of a call failing
ActuatorInit ==
    /\ pc = "actuator"
    /\ env \in [mode : {"enable"}, gpu_list : {[given |-> FALSE, text |-> <<>>]},
                names : SeqsOf(DOMAIN gpu_info, 1, MaxGpus), host : {HostOk}]
    /\ gpus = get_gpus(env.names).gpus
    /\ affected_gpus = [k \in 1..Len(gpus) |-> k]
    /\ pos = 1
    /\ calls = <<>>
    /\ lastCall = [i \in 0..(Len(gpus) - 1) |-> "none"]
    /\ sig = "none"
    /\ sigAt = "none"
    /\ reader = "idle"
    /\ exitStatus = -1
    /\ dev = [i \in 0..(Len(gpus) - 1) |-> StockDevice]
    /\ callLog = <<>>
    /\ prevCalls = [kept |-> FALSE, calls |-> <<>>]
    /\ torn = {}

\* the commands of a call that exit non-zero: none, or any one of the three
FailSets == {{}} \cup {{k} : k \in 1..3}

ActuatorNext ==
    \E p \in 1..Len(gpus), disable \in BOOLEAN, fails \in FailSets :
        ActuatorCall(p, disable, fails)

ActuatorSpec == ActuatorInit /\ [][ActuatorNext]_vars

\* the daemon alone, on a host in order, with the scheduling asyncio gives:
\* a task or callback that is ready is run (the signal handler and the
\* reader are ready only while the daemon task sleeps, hence SF), and
\* nvidia-smi keeps printing lines as long as the reader reads them
DaemonInit ==
    /\ Init
    /\ env.mode = "daemon"
    /\ env.host = HostOk
    /\ ~env.gpu_list.given
    /\ \A i \in 1..Len(env.names) : env.names[i] \in DOMAIN gpu_info

DaemonNext ==
    \/ Startup
    \/ \E line \in GoodLines(Len(gpus)) \cup BadLines : ReadLine(line)
    \/ ReadEOF
    \/ TickStep
    \/ TickSleep
    \/ TickStart
    \/ SignalArrive
    \/ SignalHandlerStart
    \/ SignalHandlerStep
    \/ SignalHandlerExit

DaemonFairness ==
    /\ WF_vars(Startup)
    /\ WF_vars(TickStep)
    /\ WF_vars(TickSleep)
    /\ WF_vars(TickStart)
    /\ SF_vars(SignalHandlerStart)
    /\ WF_vars(SignalHandlerStep)
    /\ WF_vars(SignalHandlerExit)
    /\ SF_vars(\E line \in GoodLines(Len(gpus)) : ReadLine(line))

LiveSpec == DaemonInit /\ [][DaemonNext]_vars /\ DaemonFairness

\* the daemon again, every tick remembering the calls of the tick before it
HistoryInit ==
    /\ Begin(TRUE)
    /\ env.mode = "daemon"
    /\ env.host = HostOk
    /\ ~env.gpu_list.given
    /\ \A i \in 1..Len(env.names) : env.names[i] \in DOMAIN gpu_info

HistorySpec == HistoryInit /\ [][DaemonNext]_vars

\* ------------------------------------------------------------------ claims
\* the indices of the monitored GPUs
Monitored == {gpus[affected_gpus[k]].index : k \in 1..Len(affected_gpus)}

\* the registry's idle threshold of the GPU nvidia-smi lists at index i, in
\* hundredths of a watt
ThresholdOf(i) == 100 * gpu_info[env.names[i + 1]].threshold

UnknownModel == \E i \in 1..Len(env.names) : env.names[i] \notin DOMAIN gpu_info

ShutDown == pc = "exited" /\ sig = "handled"

\* C1: after a termination signal the daemon has exited with status 0 and
\* the handler made exactly N disable calls, one for each of the N monitored
\* GPUs
C1_ExactlyNDisableCalls ==
    ShutDown =>
        /\ exitStatus = 0
        /\ Len(calls) = Cardinality(Monitored)
        /\ \A k \in 1..Len(calls) : calls[k].disable
        /\ \A g \in Monitored :
               Cardinality({k \in 1..Len(calls) : calls[k].gpu = g}) = 1

\* C2: once signal_handler has started no step issues an enable call, and
\* at exit the latest call for every monitored GPU is a disable, also when
\* the signal arrived in the middle of a tick
C2_DisableIsLast ==
    /\ [][sig = "handled" =>
            /\ \/ calls' = calls
               \/ /\ Len(calls') = Len(calls) + 1
                  /\ SubSeq(calls', 1, Len(calls)) = calls
                  /\ calls'[Len(calls')].disable
            /\ \A g \in DOMAIN lastCall :
                   lastCall'[g] # lastCall[g] => lastCall'[g] = "disable"]_vars
    /\ [](ShutDown => \A g \in Monitored : lastCall[g] = "disable")

C2_Witness ==
    /\ ShutDown
    /\ sigAt = "tick"
    /\ Cardinality(Monitored) = 2
    /\ \A g \in Monitored : lastCall[g] = "disable"

\* C3: in a tick, a monitored GPU whose pstate is set and at most 2 gets
\* exactly one call: disable if its power draw is at or below its threshold,
\* enable if it is above
C3_ThresholdRule ==
    pc = "tick" =>
        \A k \in 1..(pos - 1) :
            LET gpu == gpus[affected_gpus[k]]
            IN  (gpu.has_pstate /\ gpu.pstate <= 2) =>
                    {c \in Range(calls) : c.pos = k} =
                        {[pos |-> k, gpu |-> gpu.index,
                          disable |-> (gpu.power_draw <= ThresholdOf(gpu.index))]}

C3_Witness ==
    /\ pc = "tick"
    /\ \E c \in Range(calls), d \in Range(calls) :
           /\ c.disable
           /\ gpus[affected_gpus[c.pos]].power_draw = ThresholdOf(c.gpu)
           /\ ~d.disable
           /\ gpus[affected_gpus[d.pos]].power_draw > ThresholdOf(d.gpu)

\* C4: in a tick, a monitored GPU whose pstate is unset or above 2 gets no
\* call, whatever its power draw
C4_IdleStateSkip ==
    pc = "tick" =>
        \A k \in 1..(pos - 1) :
            LET gpu == gpus[affected_gpus[k]]
            IN  (~gpu.has_pstate \/ gpu.pstate > 2) =>
                    \A c \in Range(calls) : c.gpu # gpu.index

C4_Witness ==
    /\ pc = "tick"
    /\ pos > Len(affected_gpus)
    /\ \E k \in 1..Len(affected_gpus), j \in 1..Len(affected_gpus) :
           /\ gpus[affected_gpus[k]].has_pstate
           /\ gpus[affected_gpus[k]].pstate > 2
           /\ gpus[affected_gpus[k]].power_draw > ThresholdOf(gpus[affected_gpus[k]].index)
           /\ ~gpus[affected_gpus[j]].has_pstate
           /\ gpus[affected_gpus[j]].has_power_draw
    /\ calls = <<>>

Idle(g) ==
    /\ g \in Monitored
    /\ gpus[g + 1].has_power_draw
    /\ gpus[g + 1].power_draw <= ThresholdOf(g)

Active(g) ==
    /\ g \in Monitored
    /\ gpus[g + 1].has_pstate
    /\ gpus[g + 1].pstate <= 2

C6_IndexCorrelation ==
    [][\A i \in 0..(Len(gpus) - 1), pw \in PowerDraws, ps \in PStates :
          ReadLine(TelemetryLine[i, pw, ps]) =>
              /\ Len(gpus') = Len(gpus)
              /\ \A p \in 1..Len(gpus) :
                     gpus'[p] = IF gpus[p].index = i
                                THEN [gpus[p] EXCEPT !.has_power_draw = TRUE,
                                                     !.power_draw = pw,
                                                     !.has_pstate = TRUE,
                                                     !.pstate = ps]
                                ELSE gpus[p]]_vars

C6_Witness ==
    /\ reader = "running"
    /\ Len(gpus) = 2
    /\ gpus[1].has_pstate /\ gpus[2].has_pstate
    /\ gpus[1].power_draw = 11000 /\ gpus[1].pstate = 3
    /\ gpus[2].power_draw = 13000 /\ gpus[2].pstate = 2

\* C7: two calls in succession for the same GPU and the same flag issue the
\* same commands, and when the commands succeed the device is after the
\* second call as it was after the first
C7_Idempotent ==
    (/\ Len(callLog) = 2
     /\ callLog[1].gpu = callLog[2].gpu
     /\ callLog[1].disable = callLog[2].disable) =>
        /\ callLog[2].cmds = callLog[1].cmds
        /\ (callLog[1].fails = {} /\ callLog[2].fails = {}) =>
               callLog[2].after = callLog[1].after

C7_Witness ==
    /\ Len(callLog) = 2
    /\ callLog[1].gpu = callLog[2].gpu
    /\ ~callLog[1].disable /\ ~callLog[2].disable
    /\ callLog[1].fails = {} /\ callLog[2].fails = {}
    /\ dev[callLog[2].gpu].locked
    /\ dev = callLog[1].after

\* C8: a call issues three commands: persistence mode off, reset of the
\* clock lock, power-mizer mode 0 with offset 0 to disable; persistence mode
\* on, clock lock [core - offset, boost - offset], power-mizer mode 1 with
\* the offset to enable ([1195, 1495] and 200 for the RTX 3090)
C8_CommandSequence ==
    \A k \in 1..Len(callLog) :
        LET e == callLog[k]
            name == env.names[e.gpu + 1]
            info == gpu_info[name]
            op(j) == <<e.cmds[j].tool, e.cmds[j].op>>
        IN  /\ Len(e.cmds) = 3
            /\ op(1) = <<"nvidia-smi", "-pm">>
            /\ e.cmds[1].addressed /\ e.cmds[1].index = e.gpu
            /\ e.cmds[2].addressed /\ e.cmds[2].index = e.gpu
            /\ op(3) = <<"nvidia-settings", "-a">>
            /\ IF e.disable
               THEN /\ e.cmds[1].x = 0
                    /\ op(2) = <<"nvidia-smi", "-rgc">>
                    /\ e.cmds[3].x = 0 /\ e.cmds[3].y = 0
               ELSE /\ e.cmds[1].x = 1
                    /\ op(2) = <<"nvidia-smi", "-lgc">>
                    /\ e.cmds[2].x = info.core - info.offset
                    /\ e.cmds[2].y = info.boost - info.offset
                    /\ e.cmds[3].x = 1 /\ e.cmds[3].y = info.offset
                    /\ name = RTX3090 =>
                           /\ e.cmds[2].x = 1195 /\ e.cmds[2].y = 1495
                           /\ e.cmds[3].y = 200

C8_Witness ==
    /\ Len(callLog) = 2
    /\ ~callLog[1].disable /\ callLog[2].disable
    /\ callLog[1].gpu = callLog[2].gpu
    /\ env.names[callLog[1].gpu + 1] = RTX3090
    /\ callLog[1].cmds[2].x = 1195 /\ callLog[1].cmds[2].y = 1495
    /\ callLog[2].cmds[3].y = 0

\* C9: when nvidia-smi lists a model the table does not know, the script
\* never leaves start-up but to exit with a non-zero status, and no call of
\* undervolt_gpu is made, in every mode
C9_UnknownModelRejected ==
    UnknownModel =>
        /\ pc \in {"start", "exited"}
        /\ pc = "exited" => exitStatus # 0
        /\ calls = <<>>
        /\ \A g \in DOMAIN lastCall : lastCall[g] = "none"

C9_Witness ==
    /\ UnknownModel
    /\ pc = "exited"
    /\ exitStatus = 1
    /\ env.host = HostOk
    /\ env.mode = "enable"
    /\ ~env.gpu_list.given
    /\ Len(env.names) = 2
    /\ env.names[1] \in DOMAIN gpu_info

\* C10: after a line that fails the parsing contract the reader keeps
\* reading
C10_SkipAndContinue ==
    [][\A line \in BadLines : ReadLine(line) => reader' = "running"]_vars


\* C11 as stated: a malformed line aborts the whole daemon, so that no tick
\* runs once the reader has raised
C11_MalformedLineAbortsDaemon == reader = "crashed" => pc # "tick"

\* C11: a malformed line ends the reader task and nothing else: no record
\* changes any more, the daemon task is still ready to start its next tick
\* whenever it sleeps, and the process ends only through signal_handler
C11_MalformedLineEndsReaderOnly ==
    /\ [][reader = "crashed" => reader' = "crashed" /\ gpus' = gpus]_vars
    /\ [](reader = "crashed" /\ pc = "sleeping" => ENABLED TickStart)
    /\ [](reader = "crashed" /\ pc = "exited" => ShutDown)

\* a tick that ran to its end and issued calls after the reader had raised
C11_Witness ==
    /\ reader = "crashed"
    /\ pc = "tick"
    /\ pos > Len(affected_gpus)
    /\ calls # <<>>


RECURSIVE DecisionsUpTo(_)
\* the calls a tick makes for the first k entries of affected_gpus when it
\* reads the records as they are now
DecisionsUpTo(k) ==
    IF k = 0 THEN <<>>
    ELSE LET g == gpus[affected_gpus[k]]
         IN  IF g.has_pstate /\ g.pstate <= 2
             THEN Append(DecisionsUpTo(k - 1),
                         [pos |-> k, gpu |-> g.index,
                          disable |-> g.power_draw <= ThresholdOf(g.index)])
             ELSE DecisionsUpTo(k - 1)

\* C12: once the telemetry stream has ended the reader stays ended and no
\* record changes any more, the daemon task is still ready to start its next
\* tick whenever it sleeps, and the calls of every tick are the ones decided
\* by the records as the stream left them
C12_EndOfStream ==
    /\ [][reader = "ended" => reader' = "ended" /\ gpus' = gpus]_vars
    /\ [](reader = "ended" /\ pc = "sleeping" => ENABLED TickStart)
    /\ [](reader = "ended" /\ pc = "tick" => calls = DecisionsUpTo(pos - 1))

\* a tick after the end of the stream has repeated the calls of the tick
\* before it
C12_Witness ==
    /\ reader = "ended"
    /\ pc = "tick"
    /\ pos > Len(affected_gpus)
    /\ calls # <<>>
    /\ calls = prevCalls.calls


\* C13: whenever the tick loop is about to read a record, the record's
\* power_draw and pstate are both unset or were both stored from one and the
\* same telemetry line
C13_FieldsFromOneLine ==
    pc = "tick" /\ pos <= Len(affected_gpus) =>
        LET p == affected_gpus[pos]
        IN  /\ gpus[p].has_power_draw = gpus[p].has_pstate
            /\ p \notin torn


\* C14: a call in which a command exits non-zero still runs its three
\* commands in their order, so that the commands after the failing one take
\* effect on the device, and it returns: the script is still running and
\* its caller goes on to the next call
C14_FailureDoesNotAbort ==
    /\ pc = "actuator"
    /\ \A n \in 1..Len(callLog) :
           LET e == callLog[n]
               mizer == IF e.disable THEN 0 ELSE 1
           IN  e.fails # {} =>
                   /\ Len(e.cmds) = 3
                   /\ e.cmds[1].op = "-pm"
                   /\ e.cmds[2].op = IF e.disable THEN "-rgc" ELSE "-lgc"
                   /\ e.cmds[3].tool = "nvidia-settings"
                   /\ 1 \in e.fails =>
                          /\ e.after[e.gpu].locked = ~e.disable
                          /\ e.after[e.gpu].mizer = mizer
                   /\ 2 \in e.fails => e.after[e.gpu].mizer = mizer

\* the first command of an enable call failed, the other two took effect,
\* and the call for the next GPU followed
C14_Witness ==
    /\ Len(callLog) = 2
    /\ callLog[1].fails = {1} /\ ~callLog[1].disable
    /\ callLog[1].after[callLog[1].gpu].pm = 0
    /\ callLog[1].after[callLog[1].gpu].locked
    /\ callLog[1].after[callLog[1].gpu].mizer = 1
    /\ callLog[2].gpu # callLog[1].gpu
    /\ Len(callLog[2].cmds) = 3
    /\ pc = "actuator"


\* C15: at every point of a tick the calls made so far are the ones decided
\* by the monitored records' current pstate and power_draw and their
\* thresholds, whatever was read or issued before: one call for every entry
\* with pstate <= 2, also when the tick before made the same call
C15_LevelTriggered == pc = "tick" => calls = DecisionsUpTo(pos - 1)

\* a tick of two GPUs has made the same enable call and the same disable
\* call as the tick before it
C15_Witness ==
    /\ pc = "tick"
    /\ pos > Len(affected_gpus)
    /\ reader = "running"
    /\ Len(calls) = 2
    /\ ~calls[1].disable /\ calls[2].disable
    /\ calls = prevCalls.calls


\* C16: affected_gpus does not change once start-up is over, every call of
\* a tick, of the shutdown and of the one-shot modes is for a GPU in it, and
\* a GPU outside it never gets a call, whatever the reader stores for it
C16_MonitoredSetBoundsCalls ==
    /\ [][pc # "start" => affected_gpus' = affected_gpus]_vars
    /\ [](\A k \in 1..Len(calls) : calls[k].gpu \in Monitored)
    /\ [](\A g \in DOMAIN lastCall : lastCall[g] # "none" => g \in Monitored)

\* the daemon monitored GPU 1 of two and has shut down: the reader stored
\* an active state above the threshold for GPU 0, which never got a call
C16_Witness ==
    /\ ShutDown
    /\ Len(gpus) = 2
    /\ Monitored = {1}
    /\ gpus[1].has_pstate /\ gpus[1].pstate = 2
    /\ gpus[1].power_draw > ThresholdOf(0)
    /\ lastCall[0] = "none"
    /\ lastCall[1] = "disable"
    /\ calls # <<>>


\* C17: every command of a call for a GPU is addressed to that GPU's index,
\* a call leaves the device state of every other GPU as it was, and after
\* two enable calls for two GPUs whose commands all succeeded each of the
\* two has the clock offset of its own table entry
C17_AddressedToOwnGpu ==
    /\ \A n \in 1..Len(callLog) : \A j \in 1..Len(callLog[n].cmds) :
           /\ callLog[n].cmds[j].addressed
           /\ callLog[n].cmds[j].index = callLog[n].gpu
    /\ Len(callLog) = 2 =>
           \A i \in DOMAIN dev :
               i # callLog[2].gpu => callLog[2].after[i] = callLog[1].after[i]
    /\ (/\ Len(callLog) = 2
        /\ callLog[1].gpu # callLog[2].gpu
        /\ \A n \in 1..2 : ~callLog[n].disable /\ callLog[n].fails = {}) =>
           \A n \in 1..2 :
               dev[callLog[n].gpu].offset =
                   gpu_info[env.names[callLog[n].gpu + 1]].offset


\* C18: a record that has a pstate has a power_draw, in every state, so
\* every record a tick made a call for had a power_draw to compare with the
\* threshold
C18_PStateImpliesPowerDraw ==
    /\ \A p \in 1..Len(gpus) : gpus[p].has_pstate => gpus[p].has_power_draw
    /\ pc = "tick" =>
           \A k \in 1..Len(calls) : gpus[affected_gpus[calls[k].pos]].has_power_draw

\* a tick made a call for one GPU while the record of the other has a
\* power_draw and no pstate
C18_Witness ==
    /\ pc = "tick"
    /\ calls # <<>>
    /\ \E p \in 1..Len(gpus) : gpus[p].has_power_draw /\ ~gpus[p].has_pstate


\* C19: reading a line that fails the parsing contract in its index, its
\* power draw or its pstate changes no record
C19_RejectedLineStoresNothing ==
    [][\A line \in BadLines : ReadLine(line) => gpus' = gpus]_vars

====
